---- MODULE Spec2Model ----
(***************************************************************************)
(* Model of mcp_scaffolder_server.py: the layout parsers (ASCII tree,      *)
(* nested mapping, flat entry list), the path confiner safe_join and the   *)
(* materializer scaffold_project, over a filesystem of directories and     *)
(* files without symbolic links.                                           *)
(*                                                                         *)
(* Text is modelled by TLA+ strings, character by character.  The          *)
(* box-drawing characters of BOX_CHARS are written with ASCII stand-ins:   *)
(*   "|" for U+2502, "+" for U+251C, "L" for U+2514, "=" for U+2500;       *)
(* the ASCII dash "-" is itself.                                           *)
(*                                                                         *)
(* json.loads and yaml.safe_load are library code: a request carries the   *)
(* decoded value next to its prompt text (Dump is the text of a value),    *)
(* and JInvalid stands for a text the loader rejects.  PyYAML is taken to  *)
(* be installed.  Filesystem failures are the ones the tree itself causes: *)
(* EEXIST, ENOTDIR and EISDIR.                                             *)
(***************************************************************************)
EXTENDS Integers, Sequences, FiniteSets, TLC

VARIABLES
    env_base,   \* the value of MCP_SCAFFOLDER_BASE ("" when unset)
    fs,         \* the filesystem: path string -> [kind, content]
    req,        \* the request of the last scaffold_project call
    res,        \* what that call returned or raised
    fsBefore,   \* the filesystem when that call started
    runs,       \* number of calls made so far
    phase,      \* "idle" | "done": done while res holds the last call's outcome
    prev,       \* the outcome of the call before, when this call repeated its request
    diagram,    \* tree parser: the diagram drawn (lines' level, name, is_dir)
    text,       \* tree parser: the diagram's text
    items,      \* tree parser: output of parse_ascii_tree
    paths,      \* tree parser: output of collapse_tree
    tpc         \* tree parser: "drawn" | "parsed"

vars == <<env_base, fs, req, res, fsBefore, runs, phase, prev, diagram, text, items, paths, tpc>>

-----------------------------------------------------------------------------
(* Python str methods *)

Ch(s, i) == SubSeq(s, i, i)

startswith(s, p) == Len(s) >= Len(p) /\ SubSeq(s, 1, Len(p)) = p

endswith(s, p) == Len(s) >= Len(p) /\ SubSeq(s, Len(s) - Len(p) + 1, Len(s)) = p

RECURSIVE lstrip(_, _)
lstrip(s, cs) ==
    IF Len(s) > 0 /\ Ch(s, 1) \in cs THEN lstrip(SubSeq(s, 2, Len(s)), cs) ELSE s

RECURSIVE rstrip(_, _)
rstrip(s, cs) ==
    IF Len(s) > 0 /\ Ch(s, Len(s)) \in cs
    THEN rstrip(SubSeq(s, 1, Len(s) - 1), cs)
    ELSE s

Whitespace == {" ", "\t", "\n"}

strip(s) == lstrip(rstrip(s, Whitespace), Whitespace)

RECURSIVE SplitFrom(_, _, _, _)
SplitFrom(s, sep, i, cur) ==
    IF i > Len(s) THEN <<cur>>
    ELSE IF Ch(s, i) = sep THEN <<cur>> \o SplitFrom(s, sep, i + 1, "")
    ELSE SplitFrom(s, sep, i + 1, cur \o Ch(s, i))

\* str.split(sep)
split(s, sep) == SplitFrom(s, sep, 1, "")

\* str.splitlines(): no empty last line after a trailing newline
splitlines(s) ==
    IF s = "" THEN <<>>
    ELSE LET parts == split(s, "\n")
         IN IF parts[Len(parts)] = "" THEN SubSeq(parts, 1, Len(parts) - 1) ELSE parts

RECURSIVE join(_, _)
join(sep, xs) ==
    IF xs = <<>> THEN ""
    ELSE IF Len(xs) = 1 THEN xs[1]
    ELSE xs[1] \o sep \o join(sep, Tail(xs))

-----------------------------------------------------------------------------
(* pathlib: a Path is the sequence of its parts below "/" *)

IsPart(x) == x # "" /\ x # "."

\* the parts of a path string (PurePosixPath parsing)
Parts(s) == SelectSeq(split(s, "/"), IsPart)

\* base / target
PathJoin(base, target) ==
    IF startswith(target, "/") THEN Parts(target) ELSE base \o Parts(target)

RECURSIVE ResolveFrom(_, _, _)
ResolveFrom(p, i, acc) ==
    IF i > Len(p) THEN acc
    ELSE IF p[i] = ".."
    THEN ResolveFrom(p, i + 1, IF acc = <<>> THEN acc ELSE SubSeq(acc, 1, Len(acc) - 1))
    ELSE ResolveFrom(p, i + 1, Append(acc, p[i]))

\* Path.resolve() on a filesystem without symbolic links
Resolve(p) == ResolveFrom(p, 1, <<>>)

\* str(path)
PathStr(p) == IF p = <<>> THEN "/" ELSE "/" \o join("/", p)

Parent(p) == IF p = <<>> THEN p ELSE SubSeq(p, 1, Len(p) - 1)

\* os.path.basename
basename(s) == LET parts == split(s, "/") IN parts[Len(parts)]

safe_join_prefix_ok(p, base_res) == startswith(PathStr(p), PathStr(base_res))

safe_join(base, target) ==
    LET base_res == Resolve(base)
        p == Resolve(PathJoin(base_res, target))
    IN [ok |-> safe_join_prefix_ok(p, base_res), path |-> p]

-----------------------------------------------------------------------------
(* Tree-diagram parser *)

BOX_CHARS == {"|", "+", "L", "="}

\* the first index where the pattern (+= |L= ) matches, 0 when it does not
RECURSIVE ConnectorFrom(_, _)
ConnectorFrom(line, i) ==
    IF i + 2 > Len(line) THEN 0
    ELSE IF Ch(line, i) \in {"+", "L"} /\ Ch(line, i + 1) = "=" /\ Ch(line, i + 2) = " "
    THEN i
    ELSE ConnectorFrom(line, i + 1)

Connector(line) == ConnectorFrom(line, 1)

_leading_units(line) ==
    LET m == Connector(line)
        prefix_len == IF m > 0
                      THEN m - 1
                      ELSE Len(line) - Len(lstrip(line, Whitespace \cup BOX_CHARS))
    IN prefix_len \div 2

\* [ln.rstrip() for ln in tree_text.strip().splitlines() if ln.strip()]
TreeLines(tree_text) ==
    LET all == splitlines(strip(tree_text))
        NonBlank(ln) == strip(ln) # ""
        kept == SelectSeq(all, NonBlank)
    IN [i \in 1..Len(kept) |-> rstrip(kept[i], Whitespace)]

TreeItem(raw) ==
    LET m == Connector(raw)
        name1 == strip(IF m > 0 THEN SubSeq(raw, m + 3, Len(raw)) ELSE raw)
        name2 == IF name1 = raw
                 THEN lstrip(lstrip(raw, {" ", "\t"} \cup BOX_CHARS), {"-", " "})
                 ELSE name1
        is_dir == endswith(name2, "/")
    IN [depth |-> _leading_units(raw),
        name |-> IF is_dir THEN SubSeq(name2, 1, Len(name2) - 1) ELSE name2,
        is_dir |-> is_dir]

parse_ascii_tree(tree_text) ==
    LET lines == TreeLines(tree_text)
    IN IF lines = <<>> THEN <<>>
       ELSE LET start_idx == IF endswith(strip(lines[1]), "/") THEN 1 ELSE 0
            IN [i \in 1..(Len(lines) - start_idx) |-> TreeItem(lines[i + start_idx])]

\* the stack after one item of collapse_tree's loop
StackAfter(stack, it) ==
    LET popped == IF Len(stack) > it.depth THEN SubSeq(stack, 1, it.depth) ELSE stack
    IN IF ~it.is_dir THEN popped
       ELSE IF Len(popped) = it.depth THEN Append(popped, it.name)
       ELSE IF popped # <<>> THEN [popped EXCEPT ![Len(popped)] = it.name]
       ELSE Append(popped, it.name)

RECURSIVE CollapseFrom(_, _, _)
CollapseFrom(its, i, stack) ==
    IF i > Len(its) THEN <<>>
    ELSE LET st == StackAfter(stack, its[i])
             base == join("/", st)
             rel == IF base # "" THEN base \o "/" \o its[i].name ELSE its[i].name
         IN <<[path |-> rel, is_dir |-> its[i].is_dir]>> \o CollapseFrom(its, i + 1, st)

collapse_tree(its) == CollapseFrom(its, 1, <<>>)

-----------------------------------------------------------------------------
(* Decoded JSON / YAML values, and Optional[str] *)

JNull == [t |-> "null", s |-> "", items |-> <<>>]
JStr(x) == [t |-> "str", s |-> x, items |-> <<>>]
\* a dict is the sequence of its <<key, value>> pairs in insertion order
JDict(kvs) == [t |-> "dict", s |-> "", items |-> kvs]
JList(xs) == [t |-> "list", s |-> "", items |-> xs]
\* a prompt the loader rejects (json.loads / yaml.safe_load raises)
JInvalid == [t |-> "invalid", s |-> "", items |-> <<>>]

None == [none |-> TRUE, s |-> ""]
Some(x) == [none |-> FALSE, s |-> x]

\* key in d
DictHas(d, k) == d.t = "dict" /\ \E i \in 1..Len(d.items) : d.items[i][1] = k

\* d.get(k)
DictGet(d, k) ==
    IF DictHas(d, k)
    THEN d.items[CHOOSE i \in 1..Len(d.items) : d.items[i][1] = k][2]
    ELSE JNull

\* str(v) of a decoded value
Str(v) == IF v.t = "str" THEN v.s ELSE IF v.t = "null" THEN "None" ELSE "[]"

UpperLetters == "ABCDEFGHIJKLMNOPQRSTUVWXYZ"
LowerLetters == "abcdefghijklmnopqrstuvwxyz"

LowerCh(c) ==
    IF \E i \in 1..26 : Ch(UpperLetters, i) = c
    THEN Ch(LowerLetters, CHOOSE i \in 1..26 : Ch(UpperLetters, i) = c)
    ELSE c

RECURSIVE lower(_)
lower(s) == IF s = "" THEN "" ELSE LowerCh(Ch(s, 1)) \o lower(SubSeq(s, 2, Len(s)))

-----------------------------------------------------------------------------
(* Structured-data parser *)

\* add(path, is_dir, content): the tuple appended to results
add(path, is_dir, content) ==
    [path |-> rstrip(path, {"/"}), is_dir |-> is_dir, content |-> content]

\* walk that forgets the directory it is in
walk_path_NoPrefix(prefix, k) == k

walk_path(prefix, k) == IF prefix # "" THEN prefix \o "/" \o k ELSE k

\* walk(prefix, mapping): the tuples it appends, in order
RECURSIVE walk(_, _)
walk(prefix, kvs) ==
    IF kvs = <<>> THEN <<>>
    ELSE LET k == kvs[1][1]
             v == kvs[1][2]
             p == walk_path(prefix, k)
         IN (IF v.t = "dict"
             THEN <<add(p, TRUE, None)>> \o walk(p, v.items)
             ELSE <<add(p, FALSE, IF v.t = "null" THEN None ELSE Some(Str(v)))>>)
            \o walk(prefix, Tail(kvs))

DirTypes == {"dir", "folder", "directory"}

flat_is_dir(typ, path) == typ \in DirTypes \/ endswith(path, "/")

\* one record of the flat shape
FlatEntry(it) ==
    LET path == Str(DictGet(it, "path"))
        typ == lower(IF DictHas(it, "type") THEN Str(DictGet(it, "type")) ELSE "file")
        content == DictGet(it, "content")
    IN add(path, flat_is_dir(typ, path),
           IF content.t = "null" THEN None ELSE Some(Str(content)))

\* [ok, results]; ok = FALSE stands for SpecError
parse_yaml_or_json(data) ==
    IF data.t = "dict" /\ (DictHas(data, "entries") \/ DictHas(data, "root"))
    THEN LET entries == DictGet(data, "entries")
         IN IF entries.t # "list"
            THEN [ok |-> FALSE, results |-> <<>>]
            ELSE IF \E i \in 1..Len(entries.items) :
                       entries.items[i].t # "dict" \/ ~DictHas(entries.items[i], "path")
            THEN [ok |-> FALSE, results |-> <<>>]
            ELSE [ok |-> TRUE,
                  results |-> [i \in 1..Len(entries.items) |-> FlatEntry(entries.items[i])]]
    ELSE LET mapping == IF DictHas(data, "tree") THEN DictGet(data, "tree") ELSE data
         IN IF mapping.t # "dict"
            THEN [ok |-> FALSE, results |-> <<>>]
            ELSE [ok |-> TRUE, results |-> walk("", mapping.items)]

DEFAULT_SNIPPETS ==
    [x \in {"README.md", ".env.example", "requirements.txt"} |->
        CASE x = "README.md" -> "# Project\n\nDescribe your project here.\n"
          [] x = ".env.example" -> "# Copy to .env and fill values\nAPI_KEY=\n"
          [] x = "requirements.txt" -> "# Add Python dependencies here\n"]

-----------------------------------------------------------------------------
(* Filesystem: a function from path strings to nodes; no symbolic links *)

DirNode == [kind |-> "dir", content |-> ""]
FileNode(c) == [kind |-> "file", content |-> c]

\* Path.exists()
exists(f, p) == PathStr(p) \in DOMAIN f

IsDir(f, p) == exists(f, p) /\ f[PathStr(p)].kind = "dir"
IsFile(f, p) == exists(f, p) /\ f[PathStr(p)].kind = "file"

Prefixes(p) == {SubSeq(p, 1, k) : k \in 0..Len(p)}

\* Path.mkdir(parents=True, exist_ok=True): [ok, fs, msg]
mkdir(f, p) ==
    IF IsDir(f, p) THEN [ok |-> TRUE, fs |-> f, msg |-> ""]
    ELSE IF IsFile(f, p)
    THEN [ok |-> FALSE, fs |-> f,
          msg |-> "[Errno 17] File exists: '" \o PathStr(p) \o "'"]
    ELSE IF \E q \in Prefixes(p) : IsFile(f, q)
    THEN [ok |-> FALSE, fs |-> f,
          msg |-> "[Errno 20] Not a directory: '" \o PathStr(p) \o "'"]
    ELSE LET missing == {PathStr(q) : q \in Prefixes(p)} \ DOMAIN f
         IN [ok |-> TRUE,
             fs |-> [x \in DOMAIN f \cup missing |-> IF x \in DOMAIN f THEN f[x] ELSE DirNode],
             msg |-> ""]

\* open(p, "w").write(content): [ok, fs, msg]
write_file(f, p, content) ==
    IF IsDir(f, p)
    THEN [ok |-> FALSE, fs |-> f,
          msg |-> "[Errno 21] Is a directory: '" \o PathStr(p) \o "'"]
    ELSE [ok |-> TRUE,
          fs |-> [x \in DOMAIN f \cup {PathStr(p)} |->
                     IF x = PathStr(p) THEN FileNode(content) ELSE f[x]],
          msg |-> ""]

-----------------------------------------------------------------------------
(* scaffold_project *)

RECURSIVE HasSubFrom(_, _, _)
HasSubFrom(s, sub, i) ==
    IF i + Len(sub) - 1 > Len(s) THEN FALSE
    ELSE SubSeq(s, i, i + Len(sub) - 1) = sub \/ HasSubFrom(s, sub, i + 1)

\* sub in s
HasSub(s, sub) == HasSubFrom(s, sub, 1)

WordChars ==
    {Ch(UpperLetters, i) : i \in 1..26} \cup {Ch(LowerLetters, i) : i \in 1..26}
        \cup {Ch("0123456789_", i) : i \in 1..11}

\* re.search(r"^\s*\w+\s*:\s*", s)
LooksLikeKey(s) ==
    LET a == lstrip(s, Whitespace)
        b == lstrip(a, WordChars)
        c == lstrip(b, Whitespace)
    IN Len(b) < Len(a) /\ startswith(c, ":")

\* the parse mode chosen for a request
SelectedMode(mode, prompt) ==
    IF mode # "auto" THEN mode
    ELSE LET txt == strip(prompt)
         IN IF startswith(txt, "{") \/ startswith(txt, "[") THEN "json"
            ELSE IF LooksLikeKey(txt) \/ HasSub(txt, "entries:") \/ HasSub(txt, "tree:")
            THEN "yaml"
            ELSE "tree"

\* the natural-language fallback: every non-empty line is a depth-0 item
FallbackItems(prompt) ==
    LET all == splitlines(prompt)
        NonBlank(ln) == strip(ln) # ""
        kept == SelectSeq(all, NonBlank)
    IN [i \in 1..Len(kept) |->
          LET ln == strip(kept[i])
              isd == endswith(ln, "/")
          IN [depth |-> 0,
              name |-> IF isd THEN SubSeq(ln, 1, Len(ln) - 1) ELSE ln,
              is_dir |-> isd]]

\* contents[p] after the parse loop: the content of the last file tuple with path p
ContentsOf(results) ==
    LET FileIdx == {i \in 1..Len(results) : ~results[i].is_dir}
    IN [p \in {results[i].path : i \in FileIdx} |->
          LET last == CHOOSE i \in FileIdx :
                        /\ results[i].path = p
                        /\ \A j \in FileIdx : results[j].path = p => j <= i
          IN results[last].content]

PathsOf(results) ==
    [i \in 1..Len(results) |-> [path |-> results[i].path, is_dir |-> results[i].is_dir]]

NoContents == [p \in {} |-> None]

\* the try block: [ok, paths, contents]; ok = FALSE stands for "Failed to parse prompt"
ParsePrompt(selected, prompt, data) ==
    IF selected = "tree"
    THEN LET parsed == parse_ascii_tree(prompt)
             its == IF parsed = <<>> THEN FallbackItems(prompt) ELSE parsed
         IN [ok |-> TRUE, paths |-> collapse_tree(its), contents |-> NoContents]
    ELSE IF selected \in {"yaml", "json"}
    THEN IF data.t = "invalid"
         THEN [ok |-> FALSE, paths |-> <<>>, contents |-> NoContents]
         ELSE LET parsed == parse_yaml_or_json(data)
              IN IF ~parsed.ok
                 THEN [ok |-> FALSE, paths |-> <<>>, contents |-> NoContents]
                 ELSE [ok |-> TRUE, paths |-> PathsOf(parsed.results),
                       contents |-> ContentsOf(parsed.results)]
    ELSE [ok |-> FALSE, paths |-> <<>>, contents |-> NoContents]

\* contents.get(rel), then DEFAULT_SNIPPETS.get(os.path.basename(rel), "")
ContentFor(contents, rel) ==
    IF rel \in DOMAIN contents /\ ~contents[rel].none
    THEN contents[rel].s
    ELSE IF basename(rel) \in DOMAIN DEFAULT_SNIPPETS
    THEN DEFAULT_SNIPPETS[basename(rel)]
    ELSE ""

\* the plan of a dry run
PlanOf(base_target, pths) ==
    [i \in 1..Len(pths) |->
        [path |-> PathStr(PathJoin(base_target, pths[i].path)),
         type |-> IF pths[i].is_dir THEN "dir" ELSE "file"]]

\* one iteration of the live loop on st = [fs, created, skipped, errors, raised]
EntryStep(st, base_target, e, contents, overwrite) ==
    LET j == safe_join(base_target, e.path)
        abs_path == j.path
        shown == PathStr(abs_path)
    IN IF ~j.ok THEN [st EXCEPT !.raised = TRUE]
       ELSE IF e.is_dir
       THEN LET m == mkdir(st.fs, abs_path)
            IN IF m.ok
               THEN [st EXCEPT !.fs = m.fs, !.created = Append(@, shown)]
               ELSE [st EXCEPT !.errors = Append(@, shown \o ": " \o m.msg)]
       ELSE IF exists(st.fs, abs_path) /\ ~overwrite
       THEN [st EXCEPT !.skipped = Append(@, shown)]
       ELSE LET m == mkdir(st.fs, Parent(abs_path))
            IN IF ~m.ok
               THEN [st EXCEPT !.errors = Append(@, shown \o ": " \o m.msg)]
               ELSE LET w == write_file(m.fs, abs_path, ContentFor(contents, e.path))
                    IN IF w.ok
                       THEN [st EXCEPT !.fs = w.fs, !.created = Append(@, shown)]
                       ELSE [st EXCEPT !.fs = m.fs,
                                       !.errors = Append(@, shown \o ": " \o w.msg)]

\* the live loop from entry i on
RECURSIVE LiveFrom(_, _, _, _, _, _)
LiveFrom(st, base_target, pths, contents, overwrite, i) ==
    IF i > Len(pths) \/ st.raised THEN st
    ELSE LiveFrom(EntryStep(st, base_target, pths[i], contents, overwrite),
                  base_target, pths, contents, overwrite, i + 1)

NoResult ==
    [status |-> "none", error |-> "", selected_mode |-> "", base |-> "", target |-> "",
     plan |-> <<>>, created |-> <<>>, skipped |-> <<>>, errors |-> <<>>, dry_run |-> FALSE]

\* the call raised SpecError
Raised(kind) == [NoResult EXCEPT !.status = "raised", !.error = kind]

\* base_target = safe_join(base_path, target_path.strip().lstrip('/')): [ok, path]
BaseTarget(base_path, target_path) ==
    safe_join(base_path, lstrip(strip(target_path), {"/"}))

\* the live loop over all entries
LiveRun(f, base_target, parsed, overwrite) ==
    LiveFrom([fs |-> f, created |-> <<>>, skipped |-> <<>>, errors |-> <<>>,
              raised |-> FALSE],
             base_target, parsed.paths, parsed.contents, overwrite, 1)

\* a dry run that already creates the target directory
DryRunResult_Mkdir(f, common, base_target, parsed) ==
    [fs |-> mkdir(f, base_target).fs,
     res |-> [common EXCEPT !.plan = PlanOf(base_target, parsed.paths), !.dry_run = TRUE]]

\* the dry-run return: [fs, res]
DryRunResult(f, common, base_target, parsed) ==
    [fs |-> f,
     res |-> [common EXCEPT !.plan = PlanOf(base_target, parsed.paths), !.dry_run = TRUE]]

\* everything after the parse: [fs, res]
Materialize(f, base_path, selected, parsed, r) ==
    LET t == BaseTarget(base_path, r.target_path)
        base_target == t.path
        common == [NoResult EXCEPT !.status = "returned", !.selected_mode = selected,
                                   !.base = PathStr(base_path),
                                   !.target = PathStr(base_target)]
    IN IF ~t.ok THEN [fs |-> f, res |-> Raised("confinement")]
       ELSE IF r.dry_run THEN DryRunResult(f, common, base_target, parsed)
       ELSE LET st == LiveRun(f, base_target, parsed, r.overwrite)
            IN IF st.raised
               THEN [fs |-> st.fs, res |-> Raised("confinement")]
               ELSE [fs |-> st.fs,
                     res |-> [common EXCEPT !.created = st.created,
                                            !.skipped = st.skipped,
                                            !.errors = st.errors]]

\* scaffold_project on filesystem f with MCP_SCAFFOLDER_BASE = base: [fs, res]
scaffold_project(f, base, r) ==
    IF base = "" THEN [fs |-> f, res |-> Raised("config")]
    ELSE LET base_path == Parts(base)
         IN IF ~exists(f, Resolve(base_path))
            THEN [fs |-> f, res |-> Raised("config")]
            ELSE LET selected == SelectedMode(r.mode, r.prompt)
                     parsed == ParsePrompt(selected, r.prompt, r.data)
                 IN IF ~parsed.ok THEN [fs |-> f, res |-> Raised("parse")]
                    ELSE Materialize(f, base_path, selected, parsed, r)

-----------------------------------------------------------------------------
(* Requests *)

MaxRuns == 2      \* calls per behaviour
MaxEntries == 2   \* records per flat list, keys per mapping

\* json.dumps: the prompt text of a decoded value
RECURSIVE Dump(_)
RECURSIVE DumpSeq(_, _)
Dump(v) ==
    CASE v.t = "null" -> "null"
      [] v.t = "str" -> "\"" \o v.s \o "\""
      [] v.t = "list" -> "[" \o DumpSeq(v.items, FALSE) \o "]"
      [] v.t = "dict" -> "{" \o DumpSeq(v.items, TRUE) \o "}"
      [] OTHER -> "{"
DumpSeq(xs, keyed) ==
    IF xs = <<>> THEN ""
    ELSE (IF keyed THEN "\"" \o xs[1][1] \o "\": " \o Dump(xs[1][2]) ELSE Dump(xs[1]))
         \o (IF Len(xs) > 1 THEN ", " ELSE "")
         \o DumpSeq(Tail(xs), keyed)

FlatItems ==
    { JDict(<< <<"path", JStr("a")>>, <<"content", JStr("A")>> >>),
      JDict(<< <<"path", JStr("a")>>, <<"content", JStr("B")>> >>),
      JDict(<< <<"path", JStr("a")>>, <<"type", JStr("dir")>> >>),
      JDict(<< <<"path", JStr("README.md")>>, <<"type", JStr("File")>>, <<"content", JNull>> >>),
      JDict(<< <<"path", JStr("../r2/f")>> >>),
      JDict(<< <<"content", JStr("A")>> >>) }

SeqsUpTo(S, n) == UNION {[1..k -> S] : k \in 0..n}

FlatData == {JDict(<< <<"entries", JList(es)>> >>) : es \in SeqsUpTo(FlatItems, MaxEntries)}

NestedPairs ==
    { <<"a", JStr("A")>>,
      <<"a", JDict(<< <<"b", JStr("B")>> >>)>>,
      <<"a/b", JStr("B")>>,
      <<"README.md", JNull>>,
      <<"..", JDict(<< <<"r2", JNull>> >>)>> }

DistinctKeys(kvs) == \A i, j \in 1..Len(kvs) : kvs[i][1] = kvs[j][1] => i = j

NestedMaps == {kvs \in SeqsUpTo(NestedPairs, MaxEntries) : DistinctKeys(kvs)}

NestedData ==
    {JDict(kvs) : kvs \in NestedMaps}
        \cup {JDict(<< <<"tree", JDict(kvs)>> >>) : kvs \in {m \in NestedMaps : Len(m) = 1}}

\* shapes the parser rejects, and a prompt the loader rejects
BadData == {JList(<<>>), JDict(<< <<"root", JStr("a")>> >>), JInvalid}

TreePrompts ==
    { "app/\n+= README.md\nL= src/\n   L= main.py",
      "docs/",
      "notes.txt\n  - b/\n" }

Request(mode, prompt, data, target_path, overwrite, dry_run) ==
    [mode |-> mode, prompt |-> prompt, data |-> data, target_path |-> target_path,
     overwrite |-> overwrite, dry_run |-> dry_run]

NoRequest == Request("", "", JNull, "", FALSE, FALSE)

\* dry run, live run, live run with overwrite
Flags == {<<FALSE, TRUE>>, <<FALSE, FALSE>>, <<TRUE, FALSE>>}

Requests ==
    {Request("json", Dump(d), d, "t", f[1], f[2]) :
        d \in FlatData \cup NestedData \cup BadData, f \in Flags}
    \cup
    {Request("json", Dump(d), d, t, FALSE, dr) :
        d \in {JDict(<< <<"entries", JList(<<it>>)>> >>) :
                  it \in {JDict(<< <<"path", JStr("a")>>, <<"content", JStr("A")>> >>),
                          JDict(<< <<"path", JStr("../r2/f")>> >>)}},
        t \in {" /", "../r2", "../x"}, dr \in BOOLEAN}
    \cup
    {Request(m, p, JInvalid, "t", FALSE, dr) :
        m \in {"auto", "tree"}, p \in TreePrompts, dr \in BOOLEAN}
    \cup
    {Request(m, Dump(d), d, "t", FALSE, FALSE) :
        m \in {"auto", "yaml"},
        d \in {JDict(<< <<"tree", JDict(<< <<"a", JStr("A")>> >>)>> >>),
               JDict(<< <<"entries", JList(<<>>)>> >>)}}

-----------------------------------------------------------------------------
(* The server: one call at a time *)

InitFs == [x \in {"/", "/r"} |-> DirNode]

Bases == {"/r", "", "/nx"}

NoDiagram == [width |-> 0, nodes |-> <<>>]

TreeIdle ==
    /\ diagram = NoDiagram
    /\ text = ""
    /\ items = <<>>
    /\ paths = <<>>
    /\ tpc = "off"

Init ==
    /\ env_base \in Bases
    /\ fs = InitFs
    /\ req = NoRequest
    /\ res = NoResult
    /\ fsBefore = InitFs
    /\ runs = 0
    /\ phase = "idle"
    /\ prev = NoResult
    /\ TreeIdle

\* the effect of one call of the tool with request r
Call(r) ==
    /\ runs < MaxRuns
    /\ LET out == scaffold_project(fs, env_base, r)
       IN /\ fs' = out.fs
          /\ res' = out.res
    /\ req' = r
    /\ fsBefore' = fs
    /\ runs' = runs + 1
    /\ phase' = "done"
    /\ UNCHANGED <<env_base, diagram, text, items, paths, tpc>>

\* a call of scaffold_project, start to finish
Scaffold(r) ==
    /\ phase = "idle"
    /\ prev' = NoResult
    /\ Call(r)

\* the caller sends the request it has just sent once more
Repeat ==
    /\ phase = "done"
    /\ prev = NoResult
    /\ prev' = res
    /\ Call(req)

\* the caller is done with the last outcome
Forget ==
    /\ phase = "done"
    /\ phase' = "idle"
    /\ req' = NoRequest
    /\ res' = NoResult
    /\ prev' = NoResult
    /\ fsBefore' = fs
    /\ UNCHANGED <<env_base, fs, runs, diagram, text, items, paths, tpc>>

Next == (\E r \in Requests : Scaffold(r)) \/ Repeat \/ Forget

Spec == Init /\ [][Next]_vars

-----------------------------------------------------------------------------
(* The tree parser on drawn diagrams *)

MaxNodes == 3     \* entries per diagram

Widths == {2, 3, 4}

DirNames == {"src", "lib"}

FileNames == {"main.py", "README.md"}

Nodes ==
    [level : 0..(MaxNodes - 1), name : DirNames, is_dir : {TRUE}]
        \cup [level : 0..(MaxNodes - 1), name : FileNames, is_dir : {FALSE}]

\* an internally consistent diagram: a child sits one level below a directory
Consistent(ns) ==
    /\ Len(ns) >= 1
    /\ ns[1].level = 0
    /\ \A i \in 1..(Len(ns) - 1) :
          /\ ns[i + 1].level <= ns[i].level + 1
          /\ ns[i + 1].level = ns[i].level + 1 => ns[i].is_dir

Diagrams ==
    [width : Widths, nodes : {ns \in SeqsUpTo(Nodes, MaxNodes) : Consistent(ns)}]

RECURSIVE Spaces(_)
Spaces(n) == IF n <= 0 THEN "" ELSE " " \o Spaces(n - 1)

\* node i is the last of its siblings
LastSibling(ns, i) ==
    \A j \in (i + 1)..Len(ns) :
        ns[j].level = ns[i].level => \E k \in (i + 1)..(j - 1) : ns[k].level < ns[i].level

RenderNode(d, i) ==
    Spaces(d.width * d.nodes[i].level)
        \o (IF LastSibling(d.nodes, i) THEN "L= " ELSE "+= ")
        \o d.nodes[i].name
        \o (IF d.nodes[i].is_dir THEN "/" ELSE "")

\* the text of a diagram under the root label app/
Render(d) == join("\n", <<"app/">> \o [i \in 1..Len(d.nodes) |-> RenderNode(d, i)])

ServerIdle ==
    /\ env_base = "/r"
    /\ fs = InitFs
    /\ req = NoRequest
    /\ res = NoResult
    /\ fsBefore = InitFs
    /\ runs = 0
    /\ phase = "idle"
    /\ prev = NoResult

InitTree ==
    /\ ServerIdle
    /\ diagram \in Diagrams
    /\ text = Render(diagram)
    /\ items = <<>>
    /\ paths = <<>>
    /\ tpc = "drawn"

\* parse_ascii_tree, then collapse_tree, as the tree mode runs them
ParseTree ==
    /\ tpc = "drawn"
    /\ items' = parse_ascii_tree(text)
    /\ paths' = collapse_tree(items')
    /\ tpc' = "parsed"
    /\ UNCHANGED <<env_base, fs, req, res, fsBefore, runs, phase, prev, diagram, text>>

NextTree == ParseTree

SpecTree == InitTree /\ [][NextTree]_vars

-----------------------------------------------------------------------------
(* Vocabulary of the properties *)

Range(xs) == {xs[i] : i \in 1..Len(xs)}

NoDup(xs) == \A i, j \in 1..Len(xs) : xs[i] = xs[j] => i = j

\* p is root or lies below root, part by part
IsUnder(p, root) == Len(p) >= Len(root) /\ SubSeq(p, 1, Len(root)) = root

Done == phase = "done"

Returned == Done /\ res.status = "returned"

\* the confinement root
RootPath == Resolve(Parts(env_base))

\* what the parser made of the last request: [ok, paths, contents]
Parsed == ParsePrompt(SelectedMode(req.mode, req.prompt), req.prompt, req.data)

Entries == Parsed.paths

\* the resolved target of the last request
Target == BaseTarget(Parts(env_base), req.target_path).path

\* where entry i of the last request lands
AbsOf(i) == Resolve(PathJoin(Target, Entries[i].path))

\* the last call passed configuration, parsing and the target's confinement
ReachedEntries ==
    /\ Done
    /\ res.error \notin {"config", "parse"}
    /\ BaseTarget(Parts(env_base), req.target_path).ok

\* the last call ran the live loop
RanLive == ReachedEntries /\ ~req.dry_run

\* the live loop of the last call after its first k entries
LiveAfter(k) ==
    LiveRun(fsBefore, Target, [Parsed EXCEPT !.paths = SubSeq(Entries, 1, k)],
            req.overwrite)

\* the path an errors item starts with, up to its first ": "
RECURSIVE ErrPathFrom(_, _)
ErrPathFrom(e, i) ==
    IF i + 1 > Len(e) THEN e
    ELSE IF SubSeq(e, i, i + 1) = ": " THEN SubSeq(e, 1, i - 1)
    ELSE ErrPathFrom(e, i + 1)

ErrPaths(errs) == [i \in 1..Len(errs) |-> ErrPathFrom(errs[i], 1)]

-----------------------------------------------------------------------------
(* Properties of the server, under Spec *)

\* C1: an entry that resolves outside the resolved target makes a live request
\* fail with a confinement violation, and nothing is ever created at a path that
\* is neither the confinement root nor a descendant of it.
C1_Confinement ==
    /\ \A p \in DOMAIN fs \ DOMAIN InitFs : IsUnder(Parts(p), RootPath)
    /\ (RanLive /\ \E i \in 1..Len(Entries) : ~IsUnder(AbsOf(i), Target))
          => (res.status = "raised" /\ res.error = "confinement")

\* C2: a call that ends with a configuration error, a parse error or a
\* confinement violation has written nothing.
C2_AbortWritesNothing == (Done /\ res.status = "raised") => fs = fsBefore

\* C3: in the result of a live run no path occurs twice in created, skipped and
\* errors taken together.
C3_ListsDisjoint ==
    (Returned /\ ~req.dry_run)
        => NoDup(res.created \o res.skipped \o ErrPaths(res.errors))

\* C4: a dry run that returns leaves the filesystem as it was, reports
\* dry_run with empty created, skipped and errors, and its plan has one record
\* per parsed entry, in entry order, with the entry's type and location.
C4_DryRunPure ==
    (Returned /\ req.dry_run)
        => LET es == Entries
               tgt == Target
           IN /\ fs = fsBefore
              /\ res.dry_run
              /\ res.created = <<>> /\ res.skipped = <<>> /\ res.errors = <<>>
              /\ Len(res.plan) = Len(es)
              /\ \A i \in 1..Len(es) :
                    /\ res.plan[i].type = (IF es[i].is_dir THEN "dir" ELSE "file")
                    /\ Resolve(Parts(res.plan[i].path)) = Resolve(PathJoin(tgt, es[i].path))

C4_Witness ==
    /\ Returned
    /\ req.dry_run
    /\ Len(res.plan) >= 2
    /\ fsBefore # InitFs

\* C5: when a live request without overwrite ran without errors and is run
\* again, the second run skips every file entry and creates none, creates every
\* directory entry again, and leaves every file's content as it was.
C5_Idempotent ==
    (/\ Done
     /\ prev.status = "returned"
     /\ prev.errors = <<>>
     /\ ~req.dry_run
     /\ ~req.overwrite)
        => /\ res.status = "returned"
           /\ \A i \in 1..Len(Entries) :
                 IF Entries[i].is_dir
                 THEN PathStr(AbsOf(i)) \in Range(res.created)
                 ELSE /\ PathStr(AbsOf(i)) \in Range(res.skipped)
                      /\ PathStr(AbsOf(i)) \notin Range(res.created)
           /\ \A p \in DOMAIN fsBefore :
                 fsBefore[p].kind = "file" => fs[p] = fsBefore[p]

\* C7: when an entry of a live run fails on the filesystem, the run still
\* returns a result, every entry is recorded in created, skipped or errors, and
\* every errors item reads "<path>: <message>" for the path of an entry.
C7_NoAbortOnError ==
    (RanLive /\ LiveAfter(Len(Entries)).errors # <<>>)
        => /\ res.status = "returned"
           /\ Len(res.created) + Len(res.skipped) + Len(res.errors) = Len(Entries)
           /\ \A k \in 1..Len(res.errors) :
                 \E i \in 1..Len(Entries) :
                    startswith(res.errors[k], PathStr(AbsOf(i)) \o ": ")

\* C9: every plan record of a dry run carries the resolved path of its entry,
\* which is the resolved target or a descendant of it.
C9_PlanConfined ==
    (Returned /\ req.dry_run)
        => \A i \in 1..Len(res.plan) :
              /\ IsUnder(AbsOf(i), Target)
              /\ res.plan[i].path = PathStr(AbsOf(i))

\* the content the parser produced for entry i itself (None for a tree prompt)
OwnContent(i) ==
    IF SelectedMode(req.mode, req.prompt) \in {"yaml", "json"}
    THEN parse_yaml_or_json(req.data).results[i].content
    ELSE None

ExpectedContent(i) ==
    IF ~OwnContent(i).none THEN OwnContent(i).s
    ELSE IF basename(Entries[i].path) \in DOMAIN DEFAULT_SNIPPETS
    THEN DEFAULT_SNIPPETS[basename(Entries[i].path)]
    ELSE ""

\* C10: every file entry a live run writes is written with its own explicit
\* content, else the default snippet of its basename, else the empty string.
C10_ContentPerEntry ==
    RanLive
        => \A i \in 1..Len(Entries) :
              LET before == LiveAfter(i - 1)
                  after == LiveAfter(i)
              IN (/\ ~Entries[i].is_dir
                  /\ ~before.raised
                  /\ Len(after.created) > Len(before.created))
                    => after.fs[PathStr(AbsOf(i))].content = ExpectedContent(i)

-----------------------------------------------------------------------------
(* Nested mapping against flat entry list *)

\* the last request is a nested mapping the parser accepts
IsNested ==
    /\ SelectedMode(req.mode, req.prompt) \in {"yaml", "json"}
    /\ req.data.t = "dict"
    /\ ~DictHas(req.data, "entries")
    /\ ~DictHas(req.data, "root")
    /\ (DictHas(req.data, "tree") => DictGet(req.data, "tree").t = "dict")

Mapping == IF DictHas(req.data, "tree") THEN DictGet(req.data, "tree").items ELSE req.data.items

FlatRecord(path, type, content) ==
    JDict(<< <<"path", JStr(rstrip(path, {"/"}))>>, <<"type", JStr(type)>>,
             <<"content", content>> >>)

\* the flat records that describe a mapping: each key below its parents' keys,
\* a directory before what it holds, in the mapping's order
RECURSIVE FlatRecords(_, _)
FlatRecords(prefix, kvs) ==
    IF kvs = <<>> THEN <<>>
    ELSE LET p == IF prefix = "" THEN kvs[1][1] ELSE prefix \o "/" \o kvs[1][1]
             v == kvs[1][2]
         IN (IF v.t = "dict"
             THEN <<FlatRecord(p, "directory", JNull)>> \o FlatRecords(p, v.items)
             ELSE <<FlatRecord(p, "file", v)>>)
            \o FlatRecords(prefix, Tail(kvs))

\* the last request with the flat list es in place of its mapping
FlatRequest(es) ==
    LET d == JDict(<< <<"entries", JList(es)>> >>)
    IN [req EXCEPT !.data = d, !.prompt = Dump(d)]

Reorderings(xs) ==
    {[i \in 1..Len(xs) |-> xs[f[i]]] :
        f \in {g \in [1..Len(xs) -> 1..Len(xs)] : \A i, j \in 1..Len(xs) : g[i] = g[j] => i = j}}

\* the flat list es, run live from the same filesystem, creates the same set
SameCreated(es) ==
    LET flat == scaffold_project(fsBefore, env_base, FlatRequest(es))
    IN /\ flat.res.status = res.status
       /\ Range(flat.res.created) = Range(res.created)

\* C8 as stated: a flat list of the same records, in any order, creates the
\* same set of paths as the nested mapping.
C8_AnyOrder ==
    (RanLive /\ IsNested)
        => \A es \in Reorderings(FlatRecords("", Mapping)) : SameCreated(es)

\* C8 amended: the flat list of the same records in the mapping's own order
\* creates the same set of paths as the nested mapping.
C8_SameOrder == (RanLive /\ IsNested) => SameCreated(FlatRecords("", Mapping))

C8_Witness ==
    /\ RanLive
    /\ IsNested
    /\ res.status = "returned"
    /\ Cardinality(Range(res.created)) >= 3
    /\ Len(FlatRecords("", Mapping)) >= 3

-----------------------------------------------------------------------------
(* Property of the tree parser, under SpecTree *)

\* the name of the directory that encloses node i at level l
Enclosing(ns, i, l) ==
    ns[CHOOSE j \in 1..(i - 1) :
          /\ ns[j].level = l
          /\ \A k \in (j + 1)..(i - 1) : ns[k].level # l].name

ExpectedPath(ns, i) ==
    join("/", [l \in 1..ns[i].level |-> Enclosing(ns, i, l - 1)] \o <<ns[i].name>>)

\* C6: every entry of a consistent diagram gets the path made of its enclosing
\* directories' names, outermost first, and then its own name once.
C6_PathsTrackNesting ==
    tpc = "parsed"
        => /\ Len(paths) = Len(diagram.nodes)
           /\ \A i \in 1..Len(diagram.nodes) :
                 /\ paths[i].path = ExpectedPath(diagram.nodes, i)
                 /\ paths[i].is_dir = diagram.nodes[i].is_dir

====
